---- MODULE Spec2Model ----
(***************************************************************************)
(* MISHPOSE: the pitch/key transposer and the MIDI byte-stream encoder of  *)
(* client/src/services/musicProcessor.ts, as a state machine.              *)
(*                                                                         *)
(* A behaviour is one caller working on one document: it either calls      *)
(* transposeMusicXML / generateMIDI on the document it holds, up to        *)
(* MaxCalls times, or it calls processFile once (which recognises its own  *)
(* document, the mock melody, and runs the whole pipeline).                *)
(*                                                                         *)
(* A MusicXML document is kept as its element tree: notes with an optional *)
(* pitch (optional step, alter, octave elements), key elements with an     *)
(* optional fifths element.  Numeric element text is kept as text (a       *)
(* sequence of characters) and read with parseInt / written with toString. *)
(***************************************************************************)
EXTENDS Integers, Sequences, FiniteSets, TLC

(***************************************************************************)
(* Bounds of the model.                                                    *)
(***************************************************************************)
MaxNotes == 2      \* notes in a caller-supplied document
MaxCallers == 2    \* callers that use the shared musicProcessor at a time
MaxCalls == 2      \* calls made on one document

(***************************************************************************)
(* JavaScript values.  A value that can be undefined is kept tagged.       *)
(***************************************************************************)
Undefined == [kind |-> "undefined"]
Def(v) == [kind |-> "value", value |-> v]
\* a property inherited from Object.prototype (a function or an object)
Inherited == [kind |-> "object"]
\* what parseInt gives for text without a leading integer
NaN == [kind |-> "NaN"]

\* arr[i] of a JavaScript array: undefined outside 0 .. length-1
ArrayGet(arr, i) == IF i \in 0..(Len(arr) - 1) THEN Def(arr[i + 1]) ELSE Undefined

\* a % b of JavaScript for b > 0: the remainder takes the sign of the dividend
JsRem(a, b) == IF a >= 0 THEN a % b ELSE 0 - ((0 - a) % b)

Max(a, b) == IF a >= b THEN a ELSE b
Min(a, b) == IF a <= b THEN a ELSE b

(***************************************************************************)
(* Number <-> text.                                                        *)
(***************************************************************************)
Digits == <<"0", "1", "2", "3", "4", "5", "6", "7", "8", "9">>
IsDigit(c) == \E d \in 1..10 : Digits[d] = c
DigitValue(c) == (CHOOSE d \in 1..10 : Digits[d] = c) - 1

RECURSIVE NatToString(_)
NatToString(n) ==
    IF n < 10 THEN <<Digits[n + 1]>>
    ELSE NatToString(n \div 10) \o <<Digits[(n % 10) + 1]>>

\* Number.prototype.toString of an integer
toString(n) == IF n < 0 THEN <<"-">> \o NatToString(0 - n) ELSE NatToString(n)

RECURSIVE CountDigits(_)
CountDigits(text) ==
    IF text = <<>> \/ ~IsDigit(Head(text)) THEN 0 ELSE 1 + CountDigits(Tail(text))

RECURSIVE DigitsValue(_, _)
DigitsValue(text, acc) ==
    IF text = <<>> THEN acc
    ELSE DigitsValue(Tail(text), 10 * acc + DigitValue(Head(text)))

\* parseInt(text): optional sign, then the longest run of digits; NaN if none
parseInt(text) ==
    LET signed == text # <<>> /\ Head(text) \in {"-", "+"}
        body == IF signed THEN Tail(text) ELSE text
        n == CountDigits(body)
        magnitude == DigitsValue(SubSeq(body, 1, n), 0)
    IN  IF n = 0 THEN NaN
        ELSE IF signed /\ Head(text) = "-" THEN 0 - magnitude ELSE magnitude

\* text || fallback : the empty string is falsy
TextOr(text, fallback) == IF text = <<>> THEN fallback ELSE text

(***************************************************************************)
(* The document tree.                                                      *)
(***************************************************************************)
NoText == <<>>

\* <pitch><step>s</step>[<alter>a</alter>]<octave>o</octave></pitch>
PitchOf(step, hasAlter, alter, octave) ==
    [hasStep |-> TRUE, step |-> step,
     hasAlter |-> hasAlter, alter |-> IF hasAlter THEN toString(alter) ELSE NoText,
     hasOctave |-> TRUE, octave |-> toString(octave)]

NoPitch ==
    [hasStep |-> FALSE, step |-> "", hasAlter |-> FALSE, alter |-> NoText,
     hasOctave |-> FALSE, octave |-> NoText]

\* <note><pitch>..</pitch><duration>d</duration><type>t</type></note>
NoteOf(measure, pitch, duration, type) ==
    [measure |-> measure, hasPitch |-> TRUE, pitch |-> pitch,
     duration |-> toString(duration), type |-> type]

\* <key><fifths>f</fifths></key>
KeyOf(fifths) == [hasFifths |-> TRUE, fifths |-> toString(fifths)]

\* divisions, time signature and clef of the first measure; title and composer
MockAttributes ==
    [divisions |-> toString(4), beats |-> "4", beatType |-> "4", clefSign |-> "G",
     clefLine |-> "2", title |-> "Praise to the Lord",
     composer |-> "W.S. Bennett 1816-1875"]

\* the tree DOMParser.parseFromString(musicXML, 'text/xml') gives for XML text
DocOf(notes, keys) ==
    [notes |-> notes, keys |-> keys, attributes |-> MockAttributes, parsererror |-> FALSE]

\* <note><rest/><duration>d</duration><type>t</type></note>: a note without pitch
RestOf(measure, duration, type) ==
    [measure |-> measure, hasPitch |-> FALSE, pitch |-> NoPitch,
     duration |-> toString(duration), type |-> type]

\* what parseFromString gives for null, missing or unparseable text: it does not
\* throw, it returns a <parsererror> document, which has no note, pitch or key
UnparseableDoc ==
    [notes |-> <<>>, keys |-> <<>>, attributes |-> MockAttributes, parsererror |-> TRUE]

(***************************************************************************)
(* The recognised document: processPDFToMusicXML ignores the file and      *)
(* returns the mock melody.                                                *)
(***************************************************************************)
\* NoteData literals { step, octave, alter?, duration? }
N(step, octave) ==
    [step |-> step, octave |-> octave, alter |-> Undefined, duration |-> Undefined]
Nb(step, octave) ==
    [step |-> step, octave |-> octave, alter |-> Def(-1), duration |-> Undefined]
Nd(step, octave, duration) ==
    [step |-> step, octave |-> octave, alter |-> Undefined, duration |-> Def(duration)]
Nbd(step, octave, duration) ==
    [step |-> step, octave |-> octave, alter |-> Def(-1), duration |-> Def(duration)]

measures ==
    << <<N("F", 4), N("F", 4), N("F", 4), N("G", 4)>>,
       <<N("A", 4), Nb("B", 4), N("A", 4), N("G", 4)>>,
       <<N("F", 4), N("F", 4), N("G", 4), N("A", 4)>>,
       <<Nb("B", 4), N("A", 4), N("G", 4), N("F", 4)>>,
       <<N("C", 5), N("C", 5), N("C", 5), N("D", 5)>>,
       <<Nb("E", 5), N("D", 5), N("C", 5), Nb("B", 4)>>,
       <<N("A", 4), Nb("B", 4), N("C", 5), N("D", 5)>>,
       <<Nd("C", 5, 8), Nbd("B", 4, 8)>> >>

\* the <note> written for one NoteData of measure number m
MockNote(m, note) ==
    LET hasAlter == note.alter # Undefined /\ note.alter.value # 0
        duration == IF note.duration = Undefined \/ note.duration.value = 0
                    THEN 4 ELSE note.duration.value
        noteType == IF duration = 8 THEN "half" ELSE "quarter"
    IN  NoteOf(m, PitchOf(note.step, hasAlter,
                          IF hasAlter THEN note.alter.value ELSE 0, note.octave),
               duration, noteType)

RECURSIVE MockNotes(_)
MockNotes(m) ==
    IF m > Len(measures) THEN <<>>
    ELSE [i \in 1..Len(measures[m]) |-> MockNote(m, measures[m][i])] \o MockNotes(m + 1)

generateMockMusicXML == DocOf(MockNotes(1), <<KeyOf(-1)>>)

(***************************************************************************)
(* Pitch <-> MIDI note number.                                             *)
(***************************************************************************)
noteMap == [C |-> 0, D |-> 2, E |-> 4, F |-> 5, G |-> 7, A |-> 9, B |-> 11]

\* noteToMidi with the alteration left out of the sum
noteToMidi_IgnoresAlter(step, octave, alter) ==
    LET baseNote == IF step \in DOMAIN noteMap THEN noteMap[step] ELSE 0
    IN  (octave + 1) * 12 + baseNote

\* noteToMidi that counts octaves from 0: octave * 12 + baseNote + alter
noteToMidi_OctaveFromZero(step, octave, alter) ==
    LET baseNote == IF step \in DOMAIN noteMap THEN noteMap[step] ELSE 0
    IN  octave * 12 + baseNote + alter

\* noteToMidi with a step outside the map taken as C natural, its alteration dropped
noteToMidi_UnknownStepDropsAlter(step, octave, alter) ==
    IF step \in DOMAIN noteMap
    THEN (octave + 1) * 12 + noteMap[step] + alter
    ELSE (octave + 1) * 12

\* noteMap[step] || 0, then (octave + 1) * 12 + baseNote + alter; the steps of
\* the documents here are letters, which name no inherited property of noteMap
noteToMidi(step, octave, alter) ==
    LET baseNote == IF step \in DOMAIN noteMap THEN noteMap[step] ELSE 0
    IN  (octave + 1) * 12 + baseNote + alter

noteNames == <<"C", "C", "D", "D", "E", "F", "F", "G", "G", "A", "A", "B">>
alterations == <<0, 1, 0, 1, 0, 0, 1, 0, 1, 0, 1, 0>>

\* midiToNote with the black keys spelled as flats
midiToNote_PrefersFlats(midiNote) ==
    LET octave == (midiNote \div 12) - 1
        noteIndex == JsRem(midiNote, 12)
        flatNames == <<"C", "D", "D", "E", "E", "F", "G", "G", "A", "A", "B", "B">>
        flatAlterations == <<0, -1, 0, -1, 0, 0, -1, 0, -1, 0, -1, 0>>
    IN  [step |-> ArrayGet(flatNames, noteIndex),
         octave |-> Def(octave),
         alter |-> ArrayGet(flatAlterations, noteIndex)]

\* Math.floor(midiNote / 12) - 1 and the two arrays indexed by midiNote % 12
midiToNote(midiNote) ==
    LET octave == (midiNote \div 12) - 1
        noteIndex == JsRem(midiNote, 12)
    IN  [step |-> ArrayGet(noteNames, noteIndex),
         octave |-> Def(octave),
         alter |-> ArrayGet(alterations, noteIndex)]

\* midiToNote of a value that is no number (midiNote + semitones gave a string):
\* Math.floor and % give NaN, and an array has no element NaN
midiToNoteOfNaN == [step |-> Undefined, octave |-> NaN, alter |-> Undefined]

\* noteToMidi(note.step, note.octave, note.alter) of a midiToNote result:
\* noteMap[undefined] || 0 is 0, and an undefined alter takes the default 0
noteToMidiOf(note) ==
    noteToMidi(IF note.step = Undefined THEN "undefined" ELSE note.step.value,
               note.octave.value,
               IF note.alter = Undefined THEN 0 ELSE note.alter.value)

(***************************************************************************)
(* Key signature.                                                          *)
(***************************************************************************)
\* the table of the rounded formula Math.round(n * 7 / 12)
semitoneToFifthsMap_Rounded == <<0, 1, 1, 2, 2, 3, 4, 4, 5, 5, 6, 6, 7>>

\* the table that counts sharps only: 3 semitones is 9 sharps
semitoneToFifthsMap_SharpsOnly == <<0, 7, 2, 9, 4, 11, 6, 1, 8, 3, 10, 5, 0>>

\* semitoneToFifthsMap[0] .. semitoneToFifthsMap[12]
semitoneToFifthsMap == <<0, 7, 2, -3, 4, -1, 6, 1, -4, 3, -2, 5, 0>>

\* normalisation with a single %, which leaves negative offsets negative
normalizeSemitones_SingleRem(semitones) == JsRem(semitones, 12)

\* normalisation that takes an offset down for the same offset up
normalizeSemitones_Abs(semitones) ==
    JsRem(IF semitones < 0 THEN -semitones ELSE semitones, 12)

\* ((semitones % 12) + 12) % 12
normalizeSemitones(semitones) == JsRem(JsRem(semitones, 12) + 12, 12)

\* the clamp without its upper limit
clampFifths_NoUpper(newFifths) == Max(-7, newFifths)

\* Math.max(-7, Math.min(7, newFifths))
clampFifths(newFifths) == Max(-7, Min(7, newFifths))

\* semitones is a tagged value: Def(n), or Inherited when the caller passed no number
transposeKeySignature(fifths, semitones) ==
    LET entry == IF semitones.kind = "value"
                 THEN ArrayGet(semitoneToFifthsMap, normalizeSemitones(semitones.value))
                 ELSE Undefined
        fifthsChange == IF entry = Undefined THEN 0 ELSE entry.value
        newFifths == fifths + fifthsChange
    IN  clampFifths(newFifths)

(***************************************************************************)
(* transposeMusicXML.                                                      *)
(***************************************************************************)
\* what the text of a pitch reads as: step || 'C', parseInt(octave || '4'),
\* parseInt(alter?.textContent || '0')
StepRead(pitch) == IF ~pitch.hasStep \/ pitch.step = "" THEN "C" ELSE pitch.step
OctaveRead(pitch) ==
    parseInt(IF pitch.hasOctave THEN TextOr(pitch.octave, <<"4">>) ELSE <<"4">>)
AlterRead(pitch) ==
    parseInt(IF pitch.hasAlter THEN TextOr(pitch.alter, <<"0">>) ELSE <<"0">>)

PitchMidi(pitch) == noteToMidi(StepRead(pitch), OctaveRead(pitch), AlterRead(pitch))

\* the callback without its else branch: an alter element that is there stays
\* when the new alter is 0
transposePitch_KeepsAlterElement(pitch, semitones) ==
    IF pitch.hasStep /\ pitch.hasOctave
    THEN LET note == IF semitones.kind = "value"
                     THEN midiToNote(PitchMidi(pitch) + semitones.value)
                     ELSE midiToNoteOfNaN
         IN  IF note.alter = Undefined
             THEN [threw |-> TRUE, pitch |-> pitch]
             ELSE [threw |-> FALSE,
                   pitch |-> [hasStep |-> TRUE,
                              step |-> IF note.step = Undefined THEN "" ELSE note.step.value,
                              hasAlter |-> note.alter.value # 0 \/ pitch.hasAlter,
                              alter |-> IF note.alter.value # 0
                                        THEN toString(note.alter.value) ELSE pitch.alter,
                              hasOctave |-> TRUE,
                              octave |-> IF note.octave = NaN THEN <<"N", "a", "N">>
                                         ELSE toString(note.octave.value)]]
    ELSE [threw |-> FALSE, pitch |-> pitch]

\* the callback of pitches.forEach: [threw, pitch]
transposePitch(pitch, semitones) ==
    IF pitch.hasStep /\ pitch.hasOctave
    THEN LET midiNote == PitchMidi(pitch)
             note == IF semitones.kind = "value"
                     THEN midiToNote(midiNote + semitones.value)
                     ELSE midiToNoteOfNaN
             stepText == IF note.step = Undefined THEN "" ELSE note.step.value
             octaveText == IF note.octave = NaN THEN <<"N", "a", "N">>
                           ELSE toString(note.octave.value)
         IN  IF note.alter = Undefined
             THEN \* alter !== 0 holds and alter.toString() is a TypeError
                  [threw |-> TRUE, pitch |-> pitch]
             ELSE [threw |-> FALSE,
                   pitch |-> [hasStep |-> TRUE, step |-> stepText,
                              hasAlter |-> note.alter.value # 0,
                              alter |-> IF note.alter.value # 0
                                        THEN toString(note.alter.value) ELSE NoText,
                              hasOctave |-> TRUE, octave |-> octaveText]]
    ELSE [threw |-> FALSE, pitch |-> pitch]

\* the callback of keyElements.forEach
transposeKey(key, semitones) ==
    IF key.hasFifths
    THEN LET currentFifths == parseInt(TextOr(key.fifths, <<"0">>))
         IN  [key EXCEPT !.fifths = toString(transposeKeySignature(currentFifths, semitones))]
    ELSE key

\* a transposition that serialises the notes with a pitch only
transposeMusicXML_DropsRests(musicXML, semitones) ==
    LET notes == SelectSeq(musicXML.notes, LAMBDA note : note.hasPitch)
        out == [i \in 1..Len(notes) |-> transposePitch(notes[i].pitch, semitones)]
    IN  IF \E i \in 1..Len(notes) : out[i].threw
        THEN [threw |-> TRUE, doc |-> musicXML]
        ELSE [threw |-> FALSE,
              doc |-> [musicXML EXCEPT
                         !.notes = [i \in 1..Len(notes) |->
                                       [notes[i] EXCEPT !.pitch = out[i].pitch]],
                         !.keys = [k \in 1..Len(musicXML.keys) |->
                                       transposeKey(musicXML.keys[k], semitones)]]]

\* [threw, doc]: the serialised result, or the error thrown again by the catch
transposeMusicXML(musicXML, semitones) ==
    LET pitched == {i \in 1..Len(musicXML.notes) : musicXML.notes[i].hasPitch}
        out == [i \in 1..Len(musicXML.notes) |->
                   IF i \in pitched
                   THEN transposePitch(musicXML.notes[i].pitch, semitones)
                   ELSE [threw |-> FALSE, pitch |-> musicXML.notes[i].pitch]]
    IN  IF \E i \in pitched : out[i].threw
        THEN [threw |-> TRUE, doc |-> musicXML]
        ELSE [threw |-> FALSE,
              doc |-> [musicXML EXCEPT
                         !.notes = [i \in 1..Len(musicXML.notes) |->
                                       [musicXML.notes[i] EXCEPT !.pitch = out[i].pitch]],
                         !.keys = [k \in 1..Len(musicXML.keys) |->
                                       transposeKey(musicXML.keys[k], semitones)]]]

(***************************************************************************)
(* generateMIDI.                                                           *)
(***************************************************************************)
RECURSIVE Concat(_)
Concat(seqs) == IF seqs = <<>> THEN <<>> ELSE Head(seqs) \o Concat(Tail(seqs))

\* a header that declares 480 ticks per quarter note
midiHeader_Division480 == <<77, 84, 104, 100, 0, 0, 0, 6, 0, 0, 0, 1, 1, 224>>

\* "MThd", header length 6, format 0, one track, 0x60 ticks per quarter note
midiHeader == <<77, 84, 104, 100, 0, 0, 0, 6, 0, 0, 0, 1, 0, 96>>

\* "MTrk"
trackTag == <<77, 84, 114, 107>>

\* the end-of-track event
endOfTrack == <<0, 255, 47, 0>>

\* the note off written as a note on of velocity 0
noteEvents_OffAsOn(note) ==
    IF note.hasPitch
    THEN LET midiNote == PitchMidi(note.pitch)
         IN  <<0, 144, midiNote, 100, 131, 96, 144, midiNote, 0>>
    ELSE <<>>

\* a note without pitch written with the defaults of a pitch without step and octave
noteEvents_RestAsDefault(note) ==
    LET midiNote == IF note.hasPitch THEN PitchMidi(note.pitch) ELSE noteToMidi("C", 4, 0)
    IN  <<0, 144, midiNote, 100, 131, 96, 128, midiNote, 0>>

\* the bytes pushed to trackData for one <note>: note on at delta 0, note off
\* at delta 0x83 0x60, whatever the note's duration
noteEvents(note) ==
    IF note.hasPitch
    THEN LET midiNote == PitchMidi(note.pitch)
         IN  <<0, 144, midiNote, 100, 131, 96, 128, midiNote, 0>>
    ELSE <<>>

\* a length field that keeps the low byte only
lengthBytes_LowByteOnly(trackLength) == <<0, 0, 0, trackLength % 256>>

\* (trackLength >> 24) & 0xFF, >> 16, >> 8, & 0xFF
lengthBytes(trackLength) ==
    <<(trackLength \div 16777216) % 256, (trackLength \div 65536) % 256,
      (trackLength \div 256) % 256, trackLength % 256>>

\* new Uint8Array(numbers): each element modulo 256
Uint8Array(numbers) == [i \in 1..Len(numbers) |-> numbers[i] % 256]

\* every note switched on first, then every note switched off
generateMIDI_AllOnThenOff(musicXML) ==
    LET events == [i \in 1..Len(musicXML.notes) |-> noteEvents(musicXML.notes[i])]
        ons == Concat([i \in 1..Len(events) |->
                  IF events[i] = <<>> THEN <<>> ELSE SubSeq(events[i], 1, 4)])
        offs == Concat([i \in 1..Len(events) |->
                  IF events[i] = <<>> THEN <<>> ELSE SubSeq(events[i], 5, 9)])
        trackData == ons \o offs \o endOfTrack
    IN  Uint8Array(midiHeader \o trackTag \o lengthBytes(Len(trackData)) \o trackData)

\* the bytes of the returned Blob; no statement of it throws, so the catch is dead
generateMIDI(musicXML) ==
    LET trackData == Concat([i \in 1..Len(musicXML.notes) |-> noteEvents(musicXML.notes[i])])
                        \o endOfTrack
        trackLength == Len(trackData)
    IN  Uint8Array(midiHeader \o trackTag \o lengthBytes(trackLength) \o trackData)

(***************************************************************************)
(* processFile.                                                            *)
(***************************************************************************)
INSTRUMENT_TRANSPOSITIONS ==
    [n \in {"Bb Clarinet", "Eb Alto Saxophone", "Bb Tenor Saxophone",
            "Eb Baritone Saxophone", "Bb Soprano Saxophone", "F French Horn",
            "Bb Trumpet", "Bb Flugelhorn", "Bb Trombone", "Eb Tuba", "F Tuba",
            "Bb Euphonium", "Violin", "Viola", "Cello", "Double Bass", "Guitar",
            "Bass Guitar"} |->
        CASE n \in {"Bb Clarinet", "Bb Soprano Saxophone", "Bb Trumpet",
                    "Bb Flugelhorn", "Bb Euphonium"} -> 2
          [] n \in {"Eb Alto Saxophone", "Eb Tuba"} -> 9
          [] n = "Bb Tenor Saxophone" -> 14
          [] n = "Eb Baritone Saxophone" -> 21
          [] n \in {"F French Horn", "F Tuba"} -> 7
          [] OTHER -> 0]

\* names every object literal inherits from Object.prototype (the ones used here)
ObjectPrototypeNames == {"constructor", "toString"}

\* INSTRUMENT_TRANSPOSITIONS[targetInstrument]: own property, inherited one, or undefined
instrumentLookup(targetInstrument) ==
    IF targetInstrument \in DOMAIN INSTRUMENT_TRANSPOSITIONS
    THEN Def(INSTRUMENT_TRANSPOSITIONS[targetInstrument])
    ELSE IF targetInstrument \in ObjectPrototypeNames THEN Inherited ELSE Undefined

\* the lookup with a fallback of 2 instead of 0
resolveSemitones_FallbackTwo(targetInstrument) ==
    LET found == instrumentLookup(targetInstrument)
    IN  IF found = Undefined \/ found = Def(0) THEN Def(2) ELSE found

\* INSTRUMENT_TRANSPOSITIONS[targetInstrument] || 0
resolveSemitones(targetInstrument) ==
    LET found == instrumentLookup(targetInstrument)
    IN  IF found = Undefined \/ found = Def(0) THEN Def(0) ELSE found

NoResult == [called |-> FALSE]

\* the instruments of the selector, each with the text of its transpose field,
\* shown as "Transpose <text> semitones"
instrumentCategories ==
    [name \in {"Bb Clarinet", "Bb Tenor Saxophone", "Bb Soprano Saxophone", "Bb Trumpet",
               "Bb Flugelhorn", "Bb Trombone", "Bb Euphonium"} |-> <<"+", "2">>]
      @@ [name \in {"Eb Alto Saxophone", "Eb Baritone Saxophone", "Eb Tuba"} |-> <<"+", "6">>]
      @@ [name \in {"F French Horn", "F Tuba"} |-> <<"+", "7">>]
      @@ [name \in {"Violin", "Viola", "Cello"} |-> <<"0">>]
      @@ [name \in {"Double Bass", "Guitar", "Bass Guitar"} |-> <<"-", "1", "2">>]

\* the ProcessingResult of processFile(file, targetInstrument)
processFile(targetInstrument) ==
    LET musicXML == generateMockMusicXML
        semitones == resolveSemitones(targetInstrument)
        transposed == transposeMusicXML(musicXML, semitones)
    IN  IF transposed.threw
        THEN [called |-> TRUE, success |-> FALSE, semitones |-> semitones]
        ELSE [called |-> TRUE, success |-> TRUE, semitones |-> semitones,
              musicXML |-> transposed.doc, midiBlob |-> generateMIDI(transposed.doc)]

(***************************************************************************)
(* The state machine.                                                      *)
(***************************************************************************)
VARIABLES
    doc,       \* the document the caller holds (the last result)
    orig,      \* the document the caller started with
    before,    \* the document passed to the last call
    calls,     \* the calls made so far: [op, semitones]
    status,    \* "ok", or "threw" once a call has thrown
    midi,      \* the bytes of the last generateMIDI, <<>> before
    request,   \* the processFile call made, if any
    result,    \* the ProcessingResult it resolved with
    callers,   \* the calls of concurrent callers: argument, position, promise, result
    osmd,      \* musicProcessor.osmd: the score loaded in the shared display
    container  \* musicProcessor.container: the score drawn in the shared element

callerVars == <<doc, orig, before, calls, status, midi, request, result>>
processorVars == <<osmd, container>>
vars == <<doc, orig, before, calls, status, midi, request, result,
          callers, osmd, container>>

\* the display after initializeOSMD: constructed, no score loaded, nothing drawn
NoScore == [kind |-> "none"]
ScoreOf(musicXML) == [kind |-> "score", musicXML |-> musicXML]
NoCallers == <<>>

\* the semitone offsets callers pass: every residue modulo 12, negative offsets
\* and offsets beyond one octave in both directions
Semitones == {-24, -13, -1} \cup (0..11) \cup {14}

\* the instrument names callers pass: the table's, and names it does not have
InstrumentNames ==
    DOMAIN INSTRUMENT_TRANSPOSITIONS
        \cup {"", "Kazoo", "bb trumpet", "Piano"} \cup ObjectPrototypeNames

\* a pitch element without octave element: <pitch><step>D</step></pitch>
StepOnlyPitch == [PitchOf("D", FALSE, 0, 4) EXCEPT !.hasOctave = FALSE, !.octave = NoText]

\* the melody caller-supplied documents are cut from: C0, a rest, B-flat 4, a
\* pitch with the unrecognised step H and a sharp, F-sharp 4 (a half note), A9,
\* a pitch without octave, C4
SampleMelody ==
    << NoteOf(1, PitchOf("C", FALSE, 0, 0), 4, "quarter"),
       RestOf(1, 4, "quarter"),
       NoteOf(1, PitchOf("B", TRUE, -1, 4), 4, "quarter"),
       NoteOf(1, PitchOf("H", TRUE, 1, 4), 4, "quarter"),
       NoteOf(1, PitchOf("F", TRUE, 1, 4), 8, "half"),
       NoteOf(1, PitchOf("A", FALSE, 0, 9), 4, "quarter"),
       NoteOf(1, StepOnlyPitch, 4, "quarter"),
       NoteOf(1, PitchOf("C", FALSE, 0, 4), 4, "quarter") >>

\* the runs of up to MaxNotes consecutive notes of the melody
SampleNotes ==
    { SubSeq(SampleMelody, w[1], w[1] + w[2] - 1) :
        w \in { v \in (1..Len(SampleMelody)) \X (1..MaxNotes) :
                   v[1] + v[2] - 1 <= Len(SampleMelody) } }

StartFifths == {-7, 0, 7}

\* caller-supplied documents: up to MaxNotes notes in C major, or no note in an
\* extreme key (transposing makes every other combination), or no XML at all
InputDocs ==
    { DocOf(notes, <<KeyOf(0)>>) : notes \in SampleNotes \cup {<<>>} }
      \cup { DocOf(<<>>, <<KeyOf(f)>>) : f \in StartFifths }
      \cup { UnparseableDoc }

NoRequest == [called |-> FALSE]

Init ==
    /\ doc \in InputDocs
    /\ orig = doc
    /\ before = doc
    /\ calls = <<>>
    /\ status = "ok"
    /\ midi = <<>>
    /\ request = NoRequest
    /\ result = NoResult
    /\ callers = NoCallers
    /\ osmd = NoScore
    /\ container = NoScore

CanCall == status = "ok" /\ ~request.called /\ Len(calls) < MaxCalls

\* await musicProcessor.transposeMusicXML(doc, s)
Transpose(s) ==
    /\ CanCall
    /\ LET r == transposeMusicXML(doc, Def(s))
       IN  /\ doc' = IF r.threw THEN doc ELSE r.doc
           /\ status' = IF r.threw THEN "threw" ELSE "ok"
    /\ before' = doc
    /\ calls' = Append(calls, [op |-> "transpose", semitones |-> s])
    /\ UNCHANGED <<orig, midi, request, result, callers, osmd, container>>

\* await musicProcessor.generateMIDI(doc)
GenerateMIDI ==
    /\ CanCall
    /\ midi' = generateMIDI(doc)
    /\ before' = doc
    /\ calls' = Append(calls, [op |-> "midi", semitones |-> 0])
    /\ UNCHANGED <<doc, orig, status, request, result, callers, osmd, container>>

\* await musicProcessor.processFile(file, name); its renderToPDF loads and draws
\* the transposed document in the shared display
ProcessFile(name) ==
    /\ CanCall
    /\ calls = <<>>
    /\ request' = [called |-> TRUE, targetInstrument |-> name]
    /\ result' = processFile(name)
    /\ osmd' = IF result'.success THEN ScoreOf(result'.musicXML) ELSE osmd
    /\ container' = IF result'.success THEN ScoreOf(result'.musicXML) ELSE container
    /\ UNCHANGED <<doc, orig, before, calls, status, midi, callers>>

Next ==
    \/ \E s \in Semitones : Transpose(s)
    \/ GenerateMIDI
    \/ \E name \in InstrumentNames : ProcessFile(name)

Spec == Init /\ [][Next]_vars

(***************************************************************************)
(* Vocabulary of the properties.                                           *)
(***************************************************************************)
LastCall == calls[Len(calls)]
\* the last call was transposeMusicXML(before, LastCall.semitones)
TransposedLast == calls # <<>> /\ LastCall.op = "transpose"
\* processFile(file, name) has resolved
Processed == request.called

\* the notes whose pitch transposeMusicXML rewrites
Pitched(d) ==
    {i \in 1..Len(d.notes) :
        d.notes[i].hasPitch /\ d.notes[i].pitch.hasStep /\ d.notes[i].pitch.hasOctave}

MidiAt(d, i) == PitchMidi(d.notes[i].pitch)
\* (step, alter, octave) as written in the document
Spelling(pitch) == <<StepRead(pitch), AlterRead(pitch), OctaveRead(pitch)>>
SpellingAt(d, i) == Spelling(d.notes[i].pitch)
FifthsAt(d, k) == parseInt(d.keys[k].fifths)

\* a natural, or a sharp on C, D, F, G or A, carrying an alter element iff sharp
IsCanonical(pitch) ==
    \/ AlterRead(pitch) = 0 /\ ~pitch.hasAlter /\ StepRead(pitch) \in DOMAIN noteMap
    \/ AlterRead(pitch) = 1 /\ StepRead(pitch) \in {"C", "D", "F", "G", "A"}

SameMidi(d, e) ==
    /\ Len(d.notes) = Len(e.notes)
    /\ \A i \in Pitched(e) : MidiAt(d, i) = MidiAt(e, i)

SameFifths(d, e) ==
    /\ Len(d.keys) = Len(e.keys)
    /\ \A k \in 1..Len(e.keys) : FifthsAt(d, k) = FifthsAt(e, k)

\* the reference decomposition: sharp-preferring table at the mathematical modulo
CanonicalSteps == <<"C", "C", "D", "D", "E", "F", "F", "G", "G", "A", "A", "B">>
CanonicalAlters == <<0, 1, 0, 1, 0, 0, 1, 0, 1, 0, 1, 0>>
Reference(target) ==
    [step |-> Def(CanonicalSteps[(target % 12) + 1]),
     octave |-> Def((target \div 12) - 1),
     alter |-> Def(CanonicalAlters[(target % 12) + 1])]

\* the conventional fifths delta of an offset, and saturation at -7 and 7
ConventionalDelta == <<0, 7, 2, -3, 4, -1, 6, 1, -4, 3, -2, 5>>
Saturate(n) == IF n > 7 THEN 7 ELSE IF n < -7 THEN -7 ELSE n

(***************************************************************************)
(* C1  Value round-trip: for every pitch and every semitones, noteToMidi   *)
(* of the (step, alter, octave) that midiToNote produces for               *)
(* noteToMidi(pitch) + semitones is noteToMidi(pitch) + semitones.         *)
(* Stated of every pitch of the document passed to the last                *)
(* transposeMusicXML call.  The code breaks it below MIDI 0.               *)
(***************************************************************************)
C1_ValueRoundTrip ==
    TransposedLast =>
        \A i \in Pitched(before) :
            LET target == MidiAt(before, i) + LastCall.semitones
            IN  noteToMidiOf(midiToNote(target)) = target

C3_Totality ==
    TransposedLast =>
        /\ status = "ok"
        /\ \A i \in Pitched(before) :
              /\ StepRead(doc.notes[i].pitch) \in DOMAIN noteMap
              /\ OctaveRead(doc.notes[i].pitch) =
                    ((MidiAt(before, i) + LastCall.semitones) \div 12) - 1

(***************************************************************************)
(* C4  Pitch transposition matches the reference algorithm: the output of  *)
(* midiToNote(midi + semitones) is the canonical table entry at the        *)
(* mathematical (midi + semitones) mod 12, with octave floor(./12) - 1.    *)
(* The code indexes the table with a negative remainder below MIDI 0.      *)
(***************************************************************************)
C4_MatchesReference ==
    TransposedLast =>
        \A i \in Pitched(before) :
            LET target == MidiAt(before, i) + LastCall.semitones
            IN  midiToNote(target) = Reference(target)

(***************************************************************************)
(* C5  Composite round-trip: transposeMusicXML(transposeMusicXML(D, n),    *)
(* -n) yields a document with the MIDI values of D, also when the          *)
(* intermediate document has pitches below MIDI 0.  Stated after the       *)
(* first call (the second applied to its outcome) and after both calls.    *)
(* The first call throws when it reaches below MIDI 0.                     *)
(***************************************************************************)
C5_CompositeRoundTrip ==
    /\ (Len(calls) = 1 /\ TransposedLast) =>
          /\ status = "ok"
          /\ LET back == transposeMusicXML(doc, Def(0 - calls[1].semitones))
             IN  ~back.threw /\ SameMidi(back.doc, orig)
    /\ (/\ Len(calls) = 2
        /\ calls[1].op = "transpose"
        /\ calls[2].op = "transpose"
        /\ calls[2].semitones = 0 - calls[1].semitones) =>
          status = "ok" /\ SameMidi(doc, orig)

(***************************************************************************)
(* C6  Key clamp: every key element of every document the transposer       *)
(* returns has its fifths in -7 .. 7, after any sequence of calls, and     *)
(* saturation raises no error (a call on a document without pitches        *)
(* always returns).                                                        *)
(***************************************************************************)
C6_KeyClamp ==
    /\ \A k \in 1..Len(doc.keys) : FifthsAt(doc, k) \in -7..7
    /\ (Processed /\ result.success) =>
          \A k \in 1..Len(result.musicXML.keys) : FifthsAt(result.musicXML, k) \in -7..7
    /\ (TransposedLast /\ Pitched(before) = {}) => status = "ok"

\* a key of 7 sharps was transposed up a semitone (delta 7) and stayed at 7
C6_Witness ==
    /\ TransposedLast
    /\ status = "ok"
    /\ LastCall.semitones = 1
    /\ Len(before.keys) = 1
    /\ FifthsAt(before, 1) = 7
    /\ FifthsAt(doc, 1) = 7

(***************************************************************************)
(* C7  Key-signature transposition matches the conventional table: the     *)
(* new fifths is the old one plus the table's delta for semitones modulo   *)
(* 12, saturated at -7 and 7; offsets that differ by a multiple of 12      *)
(* give the same result.                                                   *)
(***************************************************************************)
C7_ConventionalTable ==
    (TransposedLast /\ status = "ok") =>
        \A k \in 1..Len(before.keys) :
            LET f == FifthsAt(before, k)
                s == LastCall.semitones
            IN  /\ FifthsAt(doc, k) = Saturate(f + ConventionalDelta[(s % 12) + 1])
                /\ \A t \in Semitones :
                      (t - s) % 12 = 0 =>
                          transposeKeySignature(f, Def(t)) = FifthsAt(doc, k)

\* a negative offset beyond one octave: C major down 13 semitones gives 5 sharps
C7_Witness ==
    /\ TransposedLast
    /\ status = "ok"
    /\ LastCall.semitones = -13
    /\ Len(before.keys) = 1
    /\ FifthsAt(before, 1) = 0
    /\ FifthsAt(doc, 1) = 5

C9_UnknownFallsBackToZero ==
    (Processed /\ request.targetInstrument \notin DOMAIN INSTRUMENT_TRANSPOSITIONS) =>
        LET zero == transposeMusicXML(generateMockMusicXML, Def(0))
        IN  /\ result.semitones = Def(0)
            /\ result.success
            /\ result.musicXML = zero.doc
            /\ result.midiBlob = generateMIDI(zero.doc)

(***************************************************************************)
(* C10  Concrete scenario: B-flat 4 (MIDI 70) transposed by +9 gives MIDI  *)
(* 79 and the pitch (G, +1, 5).  As claimed it fails: MIDI 79 is G         *)
(* natural.                                                                *)
(***************************************************************************)
C10_BFlatUpNineIsGSharp ==
    (TransposedLast /\ LastCall.semitones = 9 /\ status = "ok") =>
        \A i \in Pitched(before) :
            SpellingAt(before, i) = <<"B", -1, 4>> =>
                /\ MidiAt(before, i) = 70
                /\ MidiAt(doc, i) = 79
                /\ SpellingAt(doc, i) = <<"G", 1, 5>>

(***************************************************************************)
(* C10 as amended: B-flat 4 (MIDI 70) transposed by +9 gives MIDI 79 and   *)
(* the pitch (G, 0, 5), written without an alter element; so does the      *)
(* E-flat alto saxophone on the B-flat 4 of the recognised document.       *)
(***************************************************************************)
C10_BFlatUpNineIsG ==
    /\ (TransposedLast /\ LastCall.semitones = 9 /\ status = "ok") =>
          \A i \in Pitched(before) :
              SpellingAt(before, i) = <<"B", -1, 4>> =>
                  /\ MidiAt(before, i) = 70
                  /\ MidiAt(doc, i) = 79
                  /\ SpellingAt(doc, i) = <<"G", 0, 5>>
                  /\ ~doc.notes[i].pitch.hasAlter
    /\ (Processed /\ request.targetInstrument = "Eb Alto Saxophone") =>
          /\ result.success
          /\ result.semitones = Def(9)
          /\ SpellingAt(generateMockMusicXML, 6) = <<"B", -1, 4>>
          /\ SpellingAt(result.musicXML, 6) = <<"G", 0, 5>>

\* a document with B-flat 4 was transposed by +9
C10_Witness ==
    /\ TransposedLast
    /\ LastCall.semitones = 9
    /\ status = "ok"
    /\ \E i \in Pitched(before) :
          SpellingAt(before, i) = <<"B", -1, 4>> /\ MidiAt(doc, i) = 79

(***************************************************************************)
(* Vocabulary of the MIDI properties.                                      *)
(***************************************************************************)
\* the last call was generateMIDI(before), and midi holds its bytes
EncodedLast == calls # <<>> /\ LastCall.op = "midi"

\* the encodings the state holds, each with the document it was made from
Encodings ==
    (IF EncodedLast THEN {[musicXML |-> before, bytes |-> midi]} ELSE {})
      \cup (IF Processed /\ result.success
            THEN {[musicXML |-> result.musicXML, bytes |-> result.midiBlob]}
            ELSE {})

\* the unsigned big-endian number four bytes spell
BigEndian32(b) == ((b[1] * 256 + b[2]) * 256 + b[3]) * 256 + b[4]

\* the bytes after the 14-byte header chunk, the track tag and the track length
TrackOf(bytes) == SubSeq(bytes, 23, Len(bytes))

\* where the byte pattern occurs in the bytes
Occurrences(pattern, bytes) ==
    {i \in 1..(Len(bytes) - Len(pattern) + 1) :
        SubSeq(bytes, i, i + Len(pattern) - 1) = pattern}

(***************************************************************************)
(* C11  The output of generateMIDI starts with the 14 bytes                *)
(* 4D 54 68 64 00 00 00 06 00 00 00 01 00 60 (a format 0 header, one       *)
(* track, 96 ticks per quarter note), then "MTrk" (4D 54 72 6B) and four   *)
(* bytes of track length, for every input document, one without notes      *)
(* included.                                                               *)
(***************************************************************************)
C11_HeaderBytes ==
    \A e \in Encodings :
        /\ Len(e.bytes) >= 22
        /\ SubSeq(e.bytes, 1, 14) = <<77, 84, 104, 100, 0, 0, 0, 6, 0, 0, 0, 1, 0, 96>>
        /\ SubSeq(e.bytes, 15, 18) = <<77, 84, 114, 107>>
        /\ \A i \in 19..22 : e.bytes[i] \in 0..255

\* a document without notes was encoded: header, track tag, length, end of track
C11_Witness ==
    /\ EncodedLast
    /\ before.notes = <<>>
    /\ Len(midi) = 26

(***************************************************************************)
(* C12  The four bytes of track length, read big-endian, are the number of *)
(* bytes that follow them, and the output ends with 00 FF 2F 00, which     *)
(* occurs once only, as the last event.                                    *)
(***************************************************************************)
C12_TrackLengthAndEnd ==
    \A e \in Encodings :
        LET track == TrackOf(e.bytes)
        IN  /\ Len(e.bytes) >= 26
            /\ BigEndian32(SubSeq(e.bytes, 19, 22)) = Len(track)
            /\ Occurrences(<<0, 255, 47, 0>>, track) = {Len(track) - 3}

\* the 30 notes of the recognised document give a track of 274 bytes, a length
\* of more than one byte
C12_Witness ==
    /\ Processed
    /\ result.success
    /\ Len(TrackOf(result.midiBlob)) = 274
    /\ SubSeq(result.midiBlob, 19, 22) = <<0, 0, 1, 18>>

(***************************************************************************)
(* Reading a track back: a delta-time as a variable-length quantity, then  *)
(* a note on (0x90) or note off (0x80) with two data bytes, or a meta      *)
(* event (0xFF, type, length, data).                                       *)
(***************************************************************************)
NoQuantity == [ok |-> FALSE, value |-> 0, next |-> 0]

RECURSIVE ReadQuantity(_, _, _, _)
ReadQuantity(bytes, pos, acc, count) ==
    IF pos > Len(bytes) \/ count >= 4 THEN NoQuantity
    ELSE IF bytes[pos] >= 128
         THEN ReadQuantity(bytes, pos + 1, acc * 128 + (bytes[pos] - 128), count + 1)
         ELSE [ok |-> TRUE, value |-> acc * 128 + bytes[pos], next |-> pos + 1]

Malformed == [delta |-> 0, status |-> 0, data |-> <<>>, quantity |-> <<>>]

\* the event that starts at pos, and where the next one starts
EventAt(track, pos) ==
    LET d == ReadQuantity(track, pos, 0, 0)
        at == d.next
        stop == Len(track) + 1
    IN  IF ~d.ok \/ at + 2 > Len(track) THEN [event |-> Malformed, next |-> stop]
        ELSE IF track[at] \in {144, 128}
             THEN [event |-> [delta |-> d.value, status |-> track[at],
                              data |-> <<track[at + 1], track[at + 2]>>,
                              quantity |-> SubSeq(track, pos, at - 1)],
                   next |-> at + 3]
        ELSE IF track[at] = 255 /\ track[at + 2] < 128
             THEN [event |-> [delta |-> d.value, status |-> 255,
                              data |-> <<track[at + 1]>>,
                              quantity |-> SubSeq(track, pos, at - 1)],
                   next |-> at + 3 + track[at + 2]]
        ELSE [event |-> Malformed, next |-> stop]

\* up to n events from pos on, and where the event after them starts
RECURSIVE EventRun(_, _, _)
EventRun(track, pos, n) ==
    IF n = 0 \/ pos > Len(track) THEN [events |-> <<>>, next |-> pos]
    ELSE LET first == EventAt(track, pos)
             rest == EventRun(track, first.next, n - 1)
         IN  [events |-> <<first.event>> \o rest.events, next |-> rest.next]

\* the events from pos on, read in runs of eight
RECURSIVE EventsFrom(_, _)
EventsFrom(track, pos) ==
    IF pos > Len(track) THEN <<>>
    ELSE LET run == EventRun(track, pos, 8)
         IN  run.events \o EventsFrom(track, run.next)

\* the events of the encoding, the end of track included
EventsOf(bytes) == EventsFrom(TrackOf(bytes), 1)

\* the note events: all but the last event
NoteEventsOf(bytes) == SubSeq(EventsOf(bytes), 1, Len(EventsOf(bytes)) - 1)

\* the notes generateMIDI finds a pitch element in, in document order
PitchedNotes(d) == SelectSeq(d.notes, LAMBDA note : note.hasPitch)

\* a note of the document whose absolute pitch value is no byte
OutOfByte(d) ==
    \E i \in 1..Len(d.notes) : d.notes[i].hasPitch /\ MidiAt(d, i) \notin 0..255

C14_DeltaIsDuration ==
    \A e \in Encodings :
        LET ev == NoteEventsOf(e.bytes)
            notes == PitchedNotes(e.musicXML)
            division == e.bytes[13] * 256 + e.bytes[14]
            divisions == parseInt(e.musicXML.attributes.divisions)
        IN  \A k \in 1..Len(notes) :
                /\ 2 * k <= Len(ev)
                /\ ev[2 * k].delta = (parseInt(notes[k].duration) * division) \div divisions
                /\ notes[k].type = "quarter" => ev[2 * k].delta = 96
                /\ notes[k].type = "half" => ev[2 * k].delta = 192
                /\ ev[2 * k].quantity # <<>>
                /\ ev[2 * k].quantity[1] # 128

(***************************************************************************)
(* C15  For every non-empty note sequence, of any octave and alter,        *)
(* transposed by any offset beforehand, the encoding is a valid stream:    *)
(* every status byte is 0x90, 0x80 or 0xFF and every data byte (note       *)
(* number, velocity) is in 0..127.                                         *)
(***************************************************************************)
C15_ValidStream ==
    \A e \in Encodings :
        LET ev == EventsOf(e.bytes)
        IN  \A n \in 1..Len(ev) :
                /\ ev[n].status \in {144, 128, 255}
                /\ ev[n].status \in {144, 128} =>
                      \A j \in 1..2 : ev[n].data[j] \in 0..127

(***************************************************************************)
(* C16  The events are in document order; of two consecutive pitched       *)
(* notes the note off of the earlier comes right before the note on of     *)
(* the later, which has delta-time 0; never are two notes on at a time.    *)
(***************************************************************************)
Sounding(ev, n) ==
    Cardinality({j \in 1..n : ev[j].status = 144})
        - Cardinality({j \in 1..n : ev[j].status = 128})

C16_Monophonic ==
    \A e \in Encodings :
        LET ev == NoteEventsOf(e.bytes)
            notes == PitchedNotes(e.musicXML)
            On(k) == 2 * k - 1
            Off(k) == 2 * k
        IN  /\ Len(ev) = 2 * Len(notes)
            /\ \A k \in 1..Len(notes) :
                  /\ ev[On(k)].status = 144
                  /\ ev[Off(k)].status = 128
                  /\ ev[On(k)].data[1] = PitchMidi(notes[k].pitch) % 256
                  /\ ev[Off(k)].data[1] = ev[On(k)].data[1]
                  /\ k > 1 => Off(k - 1) = On(k) - 1 /\ ev[On(k)].delta = 0
            /\ \A n \in 0..Len(ev) : Sounding(ev, n) \in {0, 1}

\* two pitched notes of different pitch were encoded, B-flat 4 before C-sharp 4
C16_Witness ==
    /\ EncodedLast
    /\ Len(PitchedNotes(before)) = 2
    /\ Len(NoteEventsOf(midi)) = 4
    /\ NoteEventsOf(midi)[2].data = <<70, 0>>
    /\ NoteEventsOf(midi)[3].data = <<61, 100>>
    /\ NoteEventsOf(midi)[3].delta = 0

(***************************************************************************)
(* C17  A note without pitch data gives no byte and no error: the          *)
(* encoding of a sequence with such notes is the encoding of the sequence  *)
(* without them, track length included.                                    *)
(***************************************************************************)
WithoutRests(d) == [d EXCEPT !.notes = PitchedNotes(d)]

C17_RestsSkipped ==
    /\ EncodedLast => status = "ok"
    /\ \A e \in Encodings :
          /\ e.bytes = generateMIDI(WithoutRests(e.musicXML))
          /\ BigEndian32(SubSeq(e.bytes, 19, 22)) = 9 * Len(PitchedNotes(e.musicXML)) + 4
          /\ Len(TrackOf(e.bytes)) = 9 * Len(PitchedNotes(e.musicXML)) + 4

\* a rest before B-flat 4 was encoded as B-flat 4 alone
C17_Witness ==
    /\ EncodedLast
    /\ Len(before.notes) = 2
    /\ ~before.notes[1].hasPitch
    /\ before.notes[2].hasPitch
    /\ TrackOf(midi) = <<0, 144, 70, 100, 131, 96, 128, 70, 0, 0, 255, 47, 0>>

(***************************************************************************)
(* C18  When the note collection is absent or unreadable (null, missing    *)
(* or unparseable input) generateMIDI fails with an EncodingError and      *)
(* returns no bytes; for every other input it returns bytes and does not   *)
(* fail.                                                                   *)
(***************************************************************************)
C18_UnreadableInputFails ==
    EncodedLast =>
        IF before.parsererror
        THEN status = "threw" /\ midi = <<>>
        ELSE status = "ok" /\ midi # <<>>

(***************************************************************************)
(* C19  A pitch whose step is none of the letters A to G is no error:      *)
(* transposer and encoder take it as pitch class C with alter 0, the       *)
(* absolute value (octave + 1) * 12 whatever alter the pitch carries, and  *)
(* go on with the other notes.                                             *)
(***************************************************************************)
UnrecognisedStep(pitch) == pitch.hasStep /\ pitch.step # "" /\ pitch.step \notin DOMAIN noteMap

\* the value of a pitch taken as C in its octave, with or without its alter
ValueAsC(pitch, keepsAlter) ==
    (OctaveRead(pitch) + 1) * 12 + (IF keepsAlter THEN AlterRead(pitch) ELSE 0)

\* the transposer and the encoder took every unrecognised pitch for that value
UnknownStepTakenAs(keepsAlter) ==
    /\ (TransposedLast /\ \A j \in Pitched(before) : MidiAt(before, j) + LastCall.semitones >= 0) =>
          /\ status = "ok"
          /\ \A i \in Pitched(before) :
                UnrecognisedStep(before.notes[i].pitch) =>
                    LET target == ValueAsC(before.notes[i].pitch, keepsAlter) + LastCall.semitones
                    IN  /\ MidiAt(doc, i) = target
                        /\ Def(StepRead(doc.notes[i].pitch)) = Reference(target).step
    /\ \A e \in Encodings :
          LET ev == NoteEventsOf(e.bytes)
              notes == PitchedNotes(e.musicXML)
          IN  /\ Len(ev) = 2 * Len(notes)
              /\ \A k \in 1..Len(notes) :
                    UnrecognisedStep(notes[k].pitch) =>
                        /\ ev[2 * k - 1].data = <<ValueAsC(notes[k].pitch, keepsAlter) % 256, 100>>
                        /\ ev[2 * k].data = <<ValueAsC(notes[k].pitch, keepsAlter) % 256, 0>>

C19_UnknownStepIsCNatural == UnknownStepTakenAs(FALSE)

(***************************************************************************)
(* C19 as amended: the unrecognised step is taken as C and the alter of    *)
(* the pitch is kept: the absolute value is (octave + 1) * 12 + alter.     *)
(***************************************************************************)
C19_UnknownStepIsCAltered == UnknownStepTakenAs(TRUE)

\* H-sharp 4 before F-sharp 4, up 2 semitones: D-sharp 4 (61 + 2) and G-sharp 4
C19_Witness ==
    /\ TransposedLast
    /\ status = "ok"
    /\ LastCall.semitones = 2
    /\ Len(before.notes) = 2
    /\ SpellingAt(before, 1) = <<"H", 1, 4>>
    /\ SpellingAt(doc, 1) = <<"D", 1, 4>>
    /\ SpellingAt(doc, 2) = <<"G", 1, 4>>

(***************************************************************************)
(* Concurrent callers of the shared musicProcessor.  transposeMusicXML and *)
(* generateMIDI are async functions without an await: a call runs its body *)
(* to the end and settles its promise; the awaiting caller goes on later,  *)
(* and calls of other callers come in between.  renderToPDF awaits         *)
(* osmd.load before it draws.                                              *)
(***************************************************************************)
Callers == 1..MaxCallers

\* the documents of concurrent callers: B-flat 4 in C major; C0 and a rest in
\* seven sharps
ConcurrentDocs ==
    { DocOf(<<SampleMelody[3]>>, <<KeyOf(0)>>),
      DocOf(<<SampleMelody[1], SampleMelody[2]>>, <<KeyOf(7)>>) }

\* up a tone; down 13 semitones, where C0 makes the transposer throw
ConcurrentSemitones == {2, -13}

NoReturn == [kind |-> "none"]

\* what a caller is about to do: op(musicXML, semitones)
CallOf(op, musicXML, semitones) ==
    [op |-> op, musicXML |-> musicXML, given |-> musicXML, semitones |-> semitones,
     pc |-> "idle", overlapped |-> FALSE, promise |-> NoReturn, ret |-> NoReturn]

\* what await transposeMusicXML(musicXML, semitones) gives the caller
TransposeReturn(musicXML, semitones) ==
    LET r == transposeMusicXML(musicXML, Def(semitones))
    IN  IF r.threw THEN [kind |-> "threw"] ELSE [kind |-> "document", musicXML |-> r.doc]

\* what await generateMIDI(musicXML) gives the caller
MidiReturn(musicXML) == [kind |-> "bytes", bytes |-> generateMIDI(musicXML)]

InitConcurrent ==
    /\ callers \in [Callers ->
          { CallOf("transpose", d, t) : d \in ConcurrentDocs, t \in ConcurrentSemitones }
            \cup { CallOf(op, d, 0) : op \in {"midi", "render"}, d \in ConcurrentDocs }]
    /\ osmd = NoScore
    /\ container = NoScore
    /\ doc = UnparseableDoc
    /\ orig = doc
    /\ before = doc
    /\ calls = <<>>
    /\ status = "ok"
    /\ midi = <<>>
    /\ request = NoRequest
    /\ result = NoResult

\* a call of another caller is in flight: made, its caller not resumed yet
InFlight(c) == \E o \in Callers \ {c} : callers[o].pc \in {"loading", "settled"}

\* a transposing call that works on the score loaded in the shared display
CallTranspose_OnLoadedScore(c) ==
    /\ callers[c].op = "transpose"
    /\ callers[c].pc = "idle"
    /\ callers' = [callers EXCEPT ![c].pc = "settled",
                                  ![c].overlapped = InFlight(c),
                                  ![c].promise =
                                      TransposeReturn(IF osmd = NoScore THEN callers[c].musicXML
                                                      ELSE osmd.musicXML,
                                                      callers[c].semitones)]
    /\ UNCHANGED <<osmd, container, callerVars>>

\* caller c calls transposeMusicXML(musicXML, semitones): the body runs to its end
CallTranspose(c) ==
    /\ callers[c].op = "transpose"
    /\ callers[c].pc = "idle"
    /\ callers' = [callers EXCEPT ![c].pc = "settled",
                                  ![c].overlapped = InFlight(c),
                                  ![c].promise =
                                      TransposeReturn(callers[c].musicXML,
                                                      callers[c].semitones)]
    /\ UNCHANGED <<osmd, container, callerVars>>

\* caller c calls generateMIDI(musicXML): the body runs to its end
CallGenerateMIDI(c) ==
    /\ callers[c].op = "midi"
    /\ callers[c].pc = "idle"
    /\ callers' = [callers EXCEPT ![c].pc = "settled",
                                  ![c].overlapped = InFlight(c),
                                  ![c].promise = MidiReturn(callers[c].musicXML)]
    /\ UNCHANGED <<osmd, container, callerVars>>

\* caller c calls renderToPDF(musicXML): the body runs up to await osmd.load
RenderLoad(c) ==
    /\ callers[c].op = "render"
    /\ callers[c].pc = "idle"
    /\ osmd' = ScoreOf(callers[c].musicXML)
    /\ callers' = [callers EXCEPT ![c].pc = "loading", ![c].overlapped = InFlight(c)]
    /\ UNCHANGED <<container, callerVars>>

\* the load has resolved: osmd.render() draws the loaded score in the container
\* and the pages are made from the container
RenderDraw(c) ==
    /\ callers[c].pc = "loading"
    /\ container' = osmd
    /\ callers' = [callers EXCEPT ![c].pc = "settled",
                                  ![c].promise = [kind |-> "pdf", pages |-> osmd]]
    /\ UNCHANGED <<osmd, callerVars>>

\* the awaiting caller goes on with the value of the promise
Resume(c) ==
    /\ callers[c].pc = "settled"
    /\ callers' = [callers EXCEPT ![c].pc = "done", ![c].ret = callers[c].promise]
    /\ UNCHANGED <<osmd, container, callerVars>>

NextConcurrent ==
    \/ \E c \in Callers : CallTranspose(c)
    \/ \E c \in Callers : CallGenerateMIDI(c)
    \/ \E c \in Callers : RenderLoad(c)
    \/ \E c \in Callers : RenderDraw(c)
    \/ \E c \in Callers : Resume(c)

SpecConcurrent == InitConcurrent /\ [][NextConcurrent]_vars

(***************************************************************************)
(* C20  Concurrent calls of transposeMusicXML and generateMIDI on the      *)
(* shared musicProcessor do not interact: in every interleaving each call  *)
(* returns what it returns alone on the same arguments, the document the   *)
(* caller passed is unchanged afterwards, and neither operation reads or   *)
(* writes the shared osmd and container, which hold what rendering calls   *)
(* put there and nothing else.                                             *)
(***************************************************************************)
\* the scores rendering calls have loaded so far
LoadedByRender ==
    { ScoreOf(callers[c].given) :
        c \in {o \in Callers : callers[o].op = "render" /\ callers[o].pc # "idle"} }

C20_NoInterference ==
    /\ \A c \in Callers :
          /\ callers[c].musicXML = callers[c].given
          /\ (callers[c].op = "transpose" /\ callers[c].pc = "done") =>
                callers[c].ret = TransposeReturn(callers[c].given, callers[c].semitones)
          /\ (callers[c].op = "midi" /\ callers[c].pc = "done") =>
                callers[c].ret = MidiReturn(callers[c].given)
    /\ osmd \in {NoScore} \cup LoadedByRender
    /\ container \in {NoScore} \cup LoadedByRender

\* a transposition was called while a rendering call had another document loaded
\* in the shared display, and its caller has its own document transposed
C20_Witness ==
    \E c \in Callers :
        /\ callers[c].op = "transpose"
        /\ callers[c].pc = "done"
        /\ callers[c].overlapped
        /\ callers[c].ret.kind = "document"
        /\ osmd # NoScore
        /\ osmd # ScoreOf(callers[c].given)

(***************************************************************************)
(* Vocabulary of the key-signature properties.                             *)
(***************************************************************************)
\* the pitch class of the tonic of the major key with that many fifths
TonicOf(fifths) == (7 * fifths) % 12

AbsOf(n) == IF n < 0 THEN -n ELSE n

\* the sum before the clamp is inside the range: the step does not saturate
Unsaturated(fifths, semitones) ==
    fifths + ConventionalDelta[(semitones % 12) + 1] \in -7..7

\* the keys the last transposition rewrote
KeysTransposed ==
    IF TransposedLast /\ status = "ok" THEN 1..Len(before.keys) ELSE {}

(***************************************************************************)
(* C21  Key and notes move together: for every fifths f in -7..7 and every *)
(* semitones s for which f + delta(s) stays inside -7..7, the tonic pitch  *)
(* class of the new major key, (7 * f') mod 12, is the tonic of the old    *)
(* key plus s, modulo 12.                                                  *)
(***************************************************************************)
C21_TonicMovesBySemitones ==
    \A k \in KeysTransposed :
        LET f == FifthsAt(before, k)
            s == LastCall.semitones
        IN  Unsaturated(f, s) =>
                TonicOf(FifthsAt(doc, k)) = (TonicOf(f) + s) % 12

\* three flats (E-flat major, tonic 3) up 8 semitones: seven flats (C-flat
\* major, tonic 11), the sum that just stays inside the range
C21_Witness ==
    /\ KeysTransposed # {}
    /\ LastCall.semitones = 8
    /\ FifthsAt(before, 1) = -3
    /\ FifthsAt(doc, 1) = -7
    /\ TonicOf(-7) = (TonicOf(-3) + 8) % 12

(***************************************************************************)
(* C22  Simplest signature: for every offset n in 0..11 the fifths delta   *)
(* of transposeKeySignature has the smallest absolute value among the      *)
(* deltas in -7..7 congruent to it modulo 12 (3 semitones is 3 flats, not  *)
(* 9 sharps).  The delta is read where the step does not end at -7 or 7.   *)
(***************************************************************************)
\* the delta of the last transposition on key k, where no clamp can have acted
DeltaUsed(k) == FifthsAt(doc, k) - FifthsAt(before, k)
DeltaVisible(k) == FifthsAt(doc, k) \in -6..6 \/ FifthsAt(before, k) = 0

C22_SmallestDelta ==
    \A k \in KeysTransposed :
        DeltaVisible(k) =>
            \A e \in -7..7 :
                (e - DeltaUsed(k)) % 12 = 0 => AbsOf(DeltaUsed(k)) <= AbsOf(e)

(***************************************************************************)
(* C22 as amended: the delta has the smallest absolute value among the     *)
(* deltas in -7..7 congruent to it modulo 12 for every offset but 1        *)
(* modulo 12, where the table takes 7 (C-sharp major) and not -5 (D-flat   *)
(* major).                                                                 *)
(***************************************************************************)
C22_SmallestDeltaButOne ==
    \A k \in KeysTransposed :
        DeltaVisible(k) =>
            IF LastCall.semitones % 12 = 1
            THEN DeltaUsed(k) = 7
            ELSE \A e \in -7..7 :
                    (e - DeltaUsed(k)) % 12 = 0 => AbsOf(DeltaUsed(k)) <= AbsOf(e)

\* C major up a semitone: seven sharps, where five flats name the same key
C22_Witness ==
    /\ KeysTransposed # {}
    /\ LastCall.semitones = 1
    /\ FifthsAt(before, 1) = 0
    /\ FifthsAt(doc, 1) = 7

(***************************************************************************)
(* C30  Key-signature round trip: for every fifths f in -7..7 and every n  *)
(* for which neither step saturates, transposing the key by n and then by  *)
(* -n gives f again.  Stated of every key the last call transposed by n:   *)
(* the way back is transposeKeySignature of the new fifths and -n.         *)
(***************************************************************************)
\* the fifths transposing key k of the document back by -n gives
FifthsBack(k) == transposeKeySignature(FifthsAt(doc, k), Def(-LastCall.semitones))

NeitherSaturates(k) ==
    /\ Unsaturated(FifthsAt(before, k), LastCall.semitones)
    /\ Unsaturated(FifthsAt(doc, k), -LastCall.semitones)

C30_KeyRoundTrip ==
    \A k \in KeysTransposed :
        NeitherSaturates(k) => FifthsBack(k) = FifthsAt(before, k)

(***************************************************************************)
(* C30 as amended: the round trip gives f again for every n but those      *)
(* congruent to 1, 6 or 11 modulo 12, whose two deltas add up to 12: there *)
(* it gives f + 12, the other signature of the same tonic.                 *)
(***************************************************************************)
C30_KeyRoundTripButEnharmonic ==
    \A k \in KeysTransposed :
        NeitherSaturates(k) =>
            FifthsBack(k) = IF LastCall.semitones % 12 \in {1, 6, 11}
                            THEN FifthsAt(before, k) + 12
                            ELSE FifthsAt(before, k)

\* C major up 3 semitones is 3 flats, and down 3 semitones from there is C major
C30_Witness ==
    /\ KeysTransposed # {}
    /\ LastCall.semitones = 3
    /\ FifthsAt(before, 1) = 0
    /\ FifthsAt(doc, 1) = -3
    /\ FifthsBack(1) = 0

(***************************************************************************)
(* C23  Frame of transposition: transposeMusicXML changes only the step,   *)
(* alter and octave of pitches and the fifths of keys; the number and      *)
(* order of measures and notes, each note's duration and type, the notes   *)
(* without pitch, time signature, clef, divisions, title and composer are  *)
(* in the output as in the input.                                          *)
(***************************************************************************)
\* the document e has everything of d that is no pitch and no fifths
FrameKept(d, e) ==
    /\ Len(e.notes) = Len(d.notes)
    /\ \A i \in 1..Len(d.notes) :
          /\ e.notes[i].measure = d.notes[i].measure
          /\ e.notes[i].duration = d.notes[i].duration
          /\ e.notes[i].type = d.notes[i].type
          /\ e.notes[i].hasPitch = d.notes[i].hasPitch
          /\ ~d.notes[i].hasPitch => e.notes[i] = d.notes[i]
    /\ Len(e.keys) = Len(d.keys)
    /\ \A k \in 1..Len(d.keys) : e.keys[k].hasFifths = d.keys[k].hasFifths
    /\ e.attributes = d.attributes

C23_Frame ==
    /\ (TransposedLast /\ status = "ok") => FrameKept(before, doc)
    /\ (Processed /\ result.success) => FrameKept(generateMockMusicXML, result.musicXML)

\* C0 before a rest, up 2 semitones: D0 before the same rest
C23_Witness ==
    /\ TransposedLast
    /\ status = "ok"
    /\ LastCall.semitones = 2
    /\ Len(before.notes) = 2
    /\ ~before.notes[2].hasPitch
    /\ SpellingAt(before, 1) = <<"C", 0, 0>>
    /\ SpellingAt(doc, 1) = <<"D", 0, 0>>
    /\ doc.notes[2] = before.notes[2]

(***************************************************************************)
(* C24  Canonical spelling: after transposeMusicXML with any semitones, 0  *)
(* included, every pitch that has a step and an octave is one of the       *)
(* twelve canonical spellings (a natural, or a sharp on C, D, F, G or A):  *)
(* its alter is 0 or 1, never negative, and it has an alter element        *)
(* exactly when its alter is 1, whether the input pitch had one or not.    *)
(* Stated of the document a call returns.                                  *)
(***************************************************************************)
AllCanonical(d) ==
    \A i \in Pitched(d) :
        LET pitch == d.notes[i].pitch
        IN  /\ IsCanonical(pitch)
            /\ AlterRead(pitch) \in {0, 1}
            /\ pitch.hasAlter <=> AlterRead(pitch) = 1

C24_CanonicalAfter ==
    /\ (TransposedLast /\ status = "ok") => AllCanonical(doc)
    /\ (Processed /\ result.success) => AllCanonical(result.musicXML)

\* B-flat 4, with an alter element, up 2 semitones: C5 without alter element
C24_Witness ==
    /\ TransposedLast
    /\ status = "ok"
    /\ LastCall.semitones = 2
    /\ Len(before.notes) = 1
    /\ before.notes[1].pitch.hasAlter
    /\ SpellingAt(before, 1) = <<"B", -1, 4>>
    /\ SpellingAt(doc, 1) = <<"C", 0, 5>>
    /\ ~doc.notes[1].pitch.hasAlter

(***************************************************************************)
(* C29  Additivity on notes: for every document D and all a and b for      *)
(* which every intermediate and final pitch has a value of 0 or more,      *)
(* transposing D by a and the result by b gives every note the step, alter *)
(* and octave that transposing D by a + b gives; transposing by 0 twice is *)
(* transposing by 0 once.                                                  *)
(***************************************************************************)
\* the caller has transposed its document twice
TransposedTwice ==
    /\ Len(calls) = 2
    /\ calls[1].op = "transpose"
    /\ calls[2].op = "transpose"
    /\ status = "ok"

\* both offsets keep every pitch of the starting document at 0 or more
StaysNonNegative ==
    \A i \in Pitched(orig) :
        /\ MidiAt(orig, i) >= 0
        /\ MidiAt(orig, i) + calls[1].semitones >= 0
        /\ MidiAt(orig, i) + calls[1].semitones + calls[2].semitones >= 0

C29_Additive ==
    (TransposedTwice /\ StaysNonNegative) =>
        LET sum == calls[1].semitones + calls[2].semitones
            direct == transposeMusicXML(orig, Def(sum))
        IN  /\ ~direct.threw
            /\ Len(doc.notes) = Len(orig.notes)
            /\ \A i \in Pitched(orig) :
                  /\ SpellingAt(doc, i) = SpellingAt(direct.doc, i)
                  /\ doc.notes[i].pitch = direct.doc.notes[i].pitch
                  /\ Def(StepRead(doc.notes[i].pitch)) = Reference(MidiAt(orig, i) + sum).step
                  /\ MidiAt(doc, i) = MidiAt(orig, i) + sum

\* B-flat 4 up 7 and then up 5 semitones is A-sharp 5, as up 12 semitones is
C29_Witness ==
    /\ TransposedTwice
    /\ calls[1].semitones = 7
    /\ calls[2].semitones = 5
    /\ Len(orig.notes) = 1
    /\ SpellingAt(orig, 1) = <<"B", -1, 4>>
    /\ SpellingAt(before, 1) = <<"F", 0, 5>>
    /\ SpellingAt(doc, 1) = <<"A", 1, 5>>

(***************************************************************************)
(* C27  For each of the 18 instruments the offset the selector shows       *)
(* ("Transpose N semitones") is the offset processFile applies for that    *)
(* name from INSTRUMENT_TRANSPOSITIONS, and the selector lists exactly the *)
(* names that are keys of the table.                                       *)
(***************************************************************************)
C27_SelectorShowsAppliedOffset ==
    /\ DOMAIN instrumentCategories = DOMAIN INSTRUMENT_TRANSPOSITIONS
    /\ Cardinality(DOMAIN instrumentCategories) = 18
    /\ (Processed /\ request.targetInstrument \in DOMAIN instrumentCategories) =>
          result.semitones = Def(parseInt(instrumentCategories[request.targetInstrument]))

(***************************************************************************)
(* Concurrent calls of processFile on the shared musicProcessor, step by   *)
(* step: the call starts the FileReader; its onload resolves the           *)
(* recognised document, and the call goes on through the transposition to  *)
(* await osmd.load; after the load it renders and captures the page and    *)
(* awaits the image; the image callback ends the page, and the call        *)
(* encodes the MIDI and resolves.  Steps of other calls come in between.   *)
(***************************************************************************)
\* the instruments of concurrent calls: up 2, up 9, and a name the table inherits
ProcessInstruments == {"Bb Clarinet", "Eb Alto Saxophone", "toString"}

\* musicProcessor.osmd when initializeOSMD has failed
NoDisplay == [kind |-> "null"]

NoDocument == [kind |-> "none"]

\* the PDF of the catch block of renderToPDF
ErrorPdf == [kind |-> "errorPdf"]

\* the PDF made of the captured page
PdfOf(captured) == [kind |-> "pdf", pages |-> captured]

\* a call of processFile(file, targetInstrument) not made yet; readable tells
\* whether the FileReader will load the file or fail
JobOf(targetInstrument, readable) ==
    [op |-> "process", targetInstrument |-> targetInstrument, readable |-> readable,
     pc |-> "idle", steps |-> <<>>, transposed |-> NoDocument, captured |-> NoScore,
     result |-> NoReturn]

SuccessOf(musicXML, pdfBlob, midiBlob) ==
    [success |-> TRUE, musicXML |-> musicXML, pdfBlob |-> pdfBlob, midiBlob |-> midiBlob]

FailureOf(message) == [success |-> FALSE, error |-> message]

\* what the transposition step of processFile gives for each instrument: the
\* recognised document is the same for every file
ProcessTransposed ==
    [name \in ProcessInstruments |->
        transposeMusicXML(generateMockMusicXML, resolveSemitones(name))]

\* what the encoding step gives for each instrument whose transposition returns
ProcessMidi ==
    [name \in ProcessInstruments |->
        IF ProcessTransposed[name].threw THEN <<>>
        ELSE generateMIDI(ProcessTransposed[name].doc)]

InitProcess ==
    /\ callers \in [Callers ->
          { JobOf(name, readable) : name \in ProcessInstruments, readable \in BOOLEAN }]
    /\ osmd \in {NoScore, NoDisplay}
    /\ container = NoScore
    /\ doc = UnparseableDoc
    /\ orig = doc
    /\ before = doc
    /\ calls = <<>>
    /\ status = "ok"
    /\ midi = <<>>
    /\ request = NoRequest
    /\ result = NoResult

\* the results screen calls processFile: readAsArrayBuffer(file) is started
StartProcess(c) ==
    /\ callers[c].op = "process"
    /\ callers[c].pc = "idle"
    /\ callers' = [callers EXCEPT ![c].pc = "reading", ![c].steps = <<"recognise">>]
    /\ UNCHANGED <<osmd, container, callerVars>>

\* reader.onload: the recognised document resolves; processFile looks the offset
\* up, transposes, and calls renderToPDF, which runs up to await osmd.load
ReaderLoad(c) ==
    /\ callers[c].pc = "reading"
    /\ callers[c].readable
    /\ LET t == ProcessTransposed[callers[c].targetInstrument]
       IN  IF t.threw
           THEN /\ callers' = [callers EXCEPT
                      ![c].pc = "resolved",
                      ![c].steps = @ \o <<"transpose">>,
                      ![c].result = FailureOf("TypeError")]
                /\ UNCHANGED osmd
           ELSE IF osmd = NoDisplay
           THEN /\ callers' = [callers EXCEPT
                      ![c].pc = "resolved",
                      ![c].steps = @ \o <<"transpose", "render", "encode">>,
                      ![c].transposed = t.doc,
                      ![c].result = SuccessOf(t.doc, ErrorPdf,
                                              ProcessMidi[callers[c].targetInstrument])]
                /\ UNCHANGED osmd
           ELSE /\ callers' = [callers EXCEPT
                      ![c].pc = "loading",
                      ![c].steps = @ \o <<"transpose", "render">>,
                      ![c].transposed = t.doc]
                /\ osmd' = ScoreOf(t.doc)
    /\ UNCHANGED <<container, callerVars>>

\* the read fails: the reader has no onerror handler, the promise of
\* processPDFToMusicXML stays pending
ReaderError(c) ==
    /\ callers[c].pc = "reading"
    /\ ~callers[c].readable
    /\ callers' = [callers EXCEPT ![c].pc = "pending"]
    /\ UNCHANGED <<osmd, container, callerVars>>

\* the load has resolved: osmd.render() draws the score the display holds now,
\* the page is taken from the container and given to an Image
LoadResolved(c) ==
    /\ callers[c].pc = "loading"
    /\ container' = osmd
    /\ callers' = [callers EXCEPT ![c].pc = "imaging", ![c].captured = osmd]
    /\ UNCHANGED <<osmd, callerVars>>

\* a page callback that encodes the MIDI from the recognised document
ImageLoaded_MidiOfOriginal(c) ==
    /\ callers[c].pc = "imaging"
    /\ callers' = [callers EXCEPT
          ![c].pc = "resolved",
          ![c].steps = @ \o <<"encode">>,
          ![c].result = SuccessOf(callers[c].transposed, PdfOf(callers[c].captured),
                                  generateMIDI(generateMockMusicXML))]
    /\ UNCHANGED <<osmd, container, callerVars>>

\* img.onload: the page goes into the PDF; processFile encodes the MIDI and resolves
ImageLoaded(c) ==
    /\ callers[c].pc = "imaging"
    /\ callers' = [callers EXCEPT
          ![c].pc = "resolved",
          ![c].steps = @ \o <<"encode">>,
          ![c].result = SuccessOf(callers[c].transposed, PdfOf(callers[c].captured),
                                  ProcessMidi[callers[c].targetInstrument])]
    /\ UNCHANGED <<osmd, container, callerVars>>

\* img.onerror: renderToPDF catches and returns the error PDF; processFile encodes
\* the MIDI and resolves
ImageFailed(c) ==
    /\ callers[c].pc = "imaging"
    /\ callers' = [callers EXCEPT
          ![c].pc = "resolved",
          ![c].steps = @ \o <<"encode">>,
          ![c].result = SuccessOf(callers[c].transposed, ErrorPdf,
                                  ProcessMidi[callers[c].targetInstrument])]
    /\ UNCHANGED <<osmd, container, callerVars>>

\* the results screen goes on after await: setProcessingResult or setError
ShowResult(c) ==
    /\ callers[c].pc = "resolved"
    /\ callers' = [callers EXCEPT ![c].pc = "shown"]
    /\ UNCHANGED <<osmd, container, callerVars>>

StepOf(c) ==
    \/ StartProcess(c)
    \/ ReaderLoad(c)
    \/ ReaderError(c)
    \/ LoadResolved(c)
    \/ ImageLoaded(c)
    \/ ImageFailed(c)
    \/ ShowResult(c)

NextProcess == \E c \in Callers : StepOf(c)

SpecProcess == InitProcess /\ [][NextProcess]_vars

\* every callback that can fire does fire, and every call that can go on does
SpecProcessFair == SpecProcess /\ \A c \in Callers : WF_vars(StepOf(c))

\* the calls that have resolved
Resolved == {c \in Callers : callers[c].pc \in {"resolved", "shown"}}

(***************************************************************************)
(* C25  Every call of processFile settles in the end: under fair           *)
(* scheduling of the file-reader and image callbacks the promise resolves  *)
(* in every execution, those in which reading the file fails included, and *)
(* the results screen does not stay in the processing state.               *)
(***************************************************************************)
C25_EventuallySettles ==
    \A c \in Callers : (callers[c].pc = "reading") ~> (callers[c].pc = "shown")

(***************************************************************************)
(* C26  processFile never rejects and resolves with one of two shapes:     *)
(* success with musicXML, pdfBlob and midiBlob, the MIDI encoded from the  *)
(* transposed document; or failure with an error message and none of the   *)
(* three.  The steps run in the order recognise, transpose, render,        *)
(* encode.                                                                 *)
(***************************************************************************)
PipelineOrder == <<"recognise", "transpose", "render", "encode">>

\* the encoding of the recognised document, which no result may carry unless the
\* transposition leaves every value as it is
OriginalMidi == generateMIDI(generateMockMusicXML)

\* the instruments whose transposition changes no value
ValuesKept ==
    {name \in ProcessInstruments :
        ~ProcessTransposed[name].threw
            /\ SameMidi(ProcessTransposed[name].doc, generateMockMusicXML)}

\* the encoding of the transposed document of each instrument, made from the
\* document itself
TransposedMidi ==
    [name \in ProcessInstruments |->
        IF ProcessTransposed[name].threw THEN <<>>
        ELSE generateMIDI(ProcessTransposed[name].doc)]

C26_TwoShapes ==
    \A c \in Callers :
        /\ callers[c].pc \in {"idle", "reading", "pending", "loading", "imaging",
                               "resolved", "shown"}
        /\ callers[c].steps = SubSeq(PipelineOrder, 1, Len(callers[c].steps))
        /\ c \in Resolved =>
              LET r == callers[c].result
                  alone == ProcessTransposed[callers[c].targetInstrument]
              IN  IF r.success
                  THEN /\ DOMAIN r = {"success", "musicXML", "pdfBlob", "midiBlob"}
                       /\ ~alone.threw
                       /\ r.musicXML = alone.doc
                       /\ r.pdfBlob.kind \in {"pdf", "errorPdf"}
                       /\ r.midiBlob = TransposedMidi[callers[c].targetInstrument]
                       /\ callers[c].targetInstrument \notin ValuesKept =>
                             r.midiBlob # OriginalMidi
                       /\ callers[c].steps = PipelineOrder
                  ELSE /\ DOMAIN r = {"success", "error"}
                       /\ alone.threw
        /\ c \notin Resolved => callers[c].result = NoReturn

\* one call has resolved with the three outputs, the other with an error
C26_Witness ==
    \E c \in Resolved, o \in Resolved :
        /\ callers[c].result.success
        /\ callers[c].targetInstrument = "Eb Alto Saxophone"
        /\ callers[c].result.pdfBlob.kind = "pdf"
        /\ SpellingAt(callers[c].result.musicXML, 6) = <<"G", 0, 5>>
        /\ ~callers[o].result.success

(***************************************************************************)
(* C28  When two processFile calls run at a time on the shared             *)
(* musicProcessor, for different instruments, the PDF of each call is      *)
(* rendered from the transposed document of that call: the score one call  *)
(* loaded in the shared display is never the one the other call renders    *)
(* and captures.                                                           *)
(***************************************************************************)
C28_OwnScoreRendered ==
    \A c \in Resolved :
        (callers[c].result.success /\ callers[c].result.pdfBlob.kind = "pdf") =>
            callers[c].result.pdfBlob.pages = ScoreOf(callers[c].result.musicXML)

====
